---- MODULE Spec2Model ----
(***************************************************************************)
(* chord3 (src/main.rs): the ChordPro parser (ChoproParser), the song      *)
(* renderer (render_song), the chord diagram renderer (chordbox) and the   *)
(* batch loop (main).                                                      *)
(*                                                                         *)
(* A Rust String is a sequence of one-character strings.  Lengths are in   *)
(* PDF user units unless a name says otherwise: the vertical cursor is in  *)
(* tenths of a unit and text widths are in thousandths of a unit, so that  *)
(* the f32 arithmetic of the source is exact integer arithmetic here.      *)
(***************************************************************************)
EXTENDS Integers, Sequences, FiniteSets, TLC

\* A String as the sequence of its characters.
RECURSIVE CharsFrom(_, _)
CharsFrom(str, k) ==
    IF k > Len(str) THEN <<>> ELSE <<SubSeq(str, k, k)>> \o CharsFrom(str, k + 1)

Chars(str) == CharsFrom(str, 1)

Range(seq) == {seq[i] : i \in 1..Len(seq)}

\* Longest raw lyric line of the parser specification.
MaxLen == 4
\* Most lines read from one song source.
MaxLines == 3
\* Most song paths on the command line.
MaxSongs == 2

(***************************************************************************)
(* Character classes of the regex crate, over the characters in use.       *)
(***************************************************************************)
\* \w
WordChars ==
    Range(Chars("abcdefghijklmnopqrstuvwxyzABCDEFGHIJKLMNOPQRSTUVWXYZ0123456789_"))

\* \s
SpaceChars == {" ", "\t"}

UpperCase == Chars("ABCDEFGHIJKLMNOPQRSTUVWXYZ")
LowerCase == Chars("abcdefghijklmnopqrstuvwxyz")

\* (?i): simple case folding of the letters in use.
Lower(c) ==
    IF c \in Range(UpperCase)
    THEN LowerCase[CHOOSE k \in 1..Len(UpperCase) : UpperCase[k] = c]
    ELSE c

LowerStr(str) == [i \in 1..Len(str) |-> Lower(str[i])]

\* First index >= pos whose character is not in class, Len(line)+1 if none.
RECURSIVE SkipWhile(_, _, _)
SkipWhile(line, pos, class) ==
    IF pos <= Len(line) /\ line[pos] \in class
    THEN SkipWhile(line, pos + 1, class)
    ELSE pos

\* First index >= pos holding character c, 0 if none.
RECURSIVE IndexFrom(_, _, _)
IndexFrom(line, pos, c) ==
    IF pos > Len(line) THEN 0
    ELSE IF line[pos] = c THEN pos
    ELSE IndexFrom(line, pos + 1, c)

\* Last index holding character c, 0 if none.
LastIndexOf(line, c) ==
    LET hits == {i \in 1..Len(line) : line[i] = c}
    IN  IF hits = {} THEN 0 ELSE CHOOSE i \in hits : \A j \in hits : j <= i

(***************************************************************************)
(* ChoproParser::nextline: comment_re = ^\s*#                              *)
(***************************************************************************)
\* A plausible slip: the pattern without its leading white space.
IsCommentAtLineStart(line) == Len(line) > 0 /\ line[1] = "#"

IsComment(line) ==
    LET k == SkipWhile(line, 1, SpaceChars)
    IN  k <= Len(line) /\ line[k] = "#"

(***************************************************************************)
(* ChoproParser::next, the directive regex of line 128: an opening brace, *)
(* cmd = \w+, then optionally a colon, \s* and arg = any characters, then  *)
(* a closing brace.                                                        *)
(* A match starts at the leftmost '{' that is followed by a word character *)
(* and, after that run of word characters, by some '}'.  \w+ is greedy and *)
(* '}' is no word character, so cmd is the whole run; :? and \s* are       *)
(* greedy; .* is greedy, so the match ends at the last '}' of the line.    *)
(***************************************************************************)
DirectiveAt(line, i, close) ==
    /\ line[i] = "{"
    /\ i < Len(line)
    /\ line[i + 1] \in WordChars
    /\ close >= SkipWhile(line, i + 1, WordChars)

\* The leftmost index >= i where the directive regex matches, 0 if none.
RECURSIVE DirectiveStart(_, _, _)
DirectiveStart(line, i, close) ==
    IF i > Len(line) THEN 0
    ELSE IF DirectiveAt(line, i, close) THEN i
    ELSE DirectiveStart(line, i + 1, close)

DirectiveCaptures(line) ==
    IF DirectiveStart(line, 1, LastIndexOf(line, "}")) > 0
    THEN LET close == LastIndexOf(line, "}")
             i == DirectiveStart(line, 1, close)
             we == SkipWhile(line, i + 1, WordChars)
             colon == IF line[we] = ":" THEN we + 1 ELSE we
             a == SkipWhile(line, colon, SpaceChars)
         IN  [matched |-> TRUE,
              whole |-> SubSeq(line, i, close),
              cmd |-> SubSeq(line, i + 1, we - 1),
              arg |-> SubSeq(line, a, close - 1)]
    ELSE [matched |-> FALSE]

(***************************************************************************)
(* The define regex of line 137, case-insensitive and anchored at both    *)
(* ends: a name of non-space characters, the keyword base-fret, one        *)
(* character of [x0-5], the keyword frets and six more of [x0-5], with     *)
(* whitespace between them and optional whitespace at the end.             *)
(* Every group and keyword is followed by \s+ or by \s*$ and holds no      *)
(* whitespace, so each is one whole whitespace-separated word of arg.      *)
(***************************************************************************)
\* The whitespace-separated words of str, in order.
RECURSIVE Words(_, _)
Words(str, pos) ==
    LET b == SkipWhile(str, pos, SpaceChars)
        e == SkipWhile(str, b, {c \in Range(str) : c \notin SpaceChars})
    IN  IF b > Len(str) THEN <<>>
        ELSE <<SubSeq(str, b, e - 1)>> \o Words(str, e)

\* [x0-5] under (?i)
FretChars == Range(Chars("xX012345"))

\* The keywords of the define regex.
BaseFret == Chars("base-fret")
Frets == Chars("frets")

IsFretWord(w) == Len(w) = 1 /\ w[1] \in FretChars

DefineCaptures(arg) ==
    LET w == Words(arg, 1)
    IN  IF /\ Len(arg) > 0
           /\ arg[1] \notin SpaceChars
           /\ Len(w) = 10
           /\ LowerStr(w[2]) = BaseFret
           /\ IsFretWord(w[3])
           /\ LowerStr(w[4]) = Frets
           /\ \A k \in 5..10 : IsFretWord(w[k])
        THEN [matched |-> TRUE,
              \* caps.at(1) .. caps.at(8)
              at |-> <<w[1], w[3], w[5], w[6], w[7], w[8], w[9], w[10]>>]
        ELSE [matched |-> FALSE]

Digits == Chars("0123456789")

\* str::parse::<i8> of a string of decimal digits
RECURSIVE ParseI8(_)
ParseI8(str) ==
    LET d(c) == (CHOOSE k \in 1..10 : Digits[k] = c) - 1
    IN  IF Len(str) = 1 THEN d(str[1])
        ELSE 10 * ParseI8(SubSeq(str, 1, Len(str) - 1)) + d(str[Len(str)])

\* Some("x") | Some("X")
Muted == {Chars("x"), Chars("X")}

\* A plausible slip: a muted string encoded as an open one.
FretOfOpenForMuted(caps, n) ==
    IF caps.at[n + 2] \in Muted THEN 0
    ELSE ParseI8(caps.at[n + 2])

\* The closure s of ChoproParser::next: the value of group n+2.
FretOf(caps, n) ==
    IF caps.at[n + 2] \in Muted THEN -1
    ELSE ParseI8(caps.at[n + 2])

(***************************************************************************)
(* The lyric regex of line 166 under captures_iter: group 1 is a run of    *)
(* characters other than '[', then optionally '[', group 2 (a run of       *)
(* characters other than ']') and ']'.                                     *)
(* At pos the regex always matches: group 1 is the run up to the next '['  *)
(* (greedy, and group 2 must start with '[', so no shorter run helps);     *)
(* group 2 takes part when that '[' has a ']' after it.  The iterator      *)
(* (regex crate, FindCaptures::next) refuses an empty match that starts    *)
(* where the previous match ended, steps over one character and searches   *)
(* again; lastMatch = 0 stands for None.                                   *)
(***************************************************************************)
RECURSIVE CapturesIter(_, _, _, _)
CapturesIter(line, pos, lastMatch, acc) ==
    LET open == IndexFrom(line, pos, "[")
        textEnd == IF open = 0 THEN Len(line) + 1 ELSE open
        close == IF open = 0 THEN 0 ELSE IndexFrom(line, open + 1, "]")
        end == IF close = 0 THEN textEnd ELSE close + 1
        text == SubSeq(line, pos, textEnd - 1)
        pushed == IF close = 0 THEN <<text>>
                  ELSE <<text, SubSeq(line, open + 1, close - 1)>>
    IN  IF pos > Len(line) + 1 THEN acc
        ELSE IF end = pos /\ lastMatch = pos
        THEN IF pos > Len(line) THEN acc
             ELSE CapturesIter(line, pos + 1, lastMatch, acc)
        ELSE CapturesIter(line, end, end, acc \o pushed)

LineSegments(line) == CapturesIter(line, 1, 0, <<>>)

(***************************************************************************)
(* ChordFileExpression and ChoproParser::next                              *)
(***************************************************************************)
NoToken == [kind |-> "None"]
Title(s) == [kind |-> "Title", s |-> s]
SubTitle(s) == [kind |-> "SubTitle", s |-> s]
Comment(s) == [kind |-> "Comment", s |-> s]
ChordDef(name, def) == [kind |-> "ChordDef", name |-> name, def |-> def]
Line(s) == [kind |-> "Line", s |-> s]

\* A plausible slip: the comment carries the argument, not the matched text.
DegradeToArg(caps) == Comment(caps.arg)

\* Lines 153-162: a directive that is no valid command becomes a Comment
\* carrying caps.at(0).
Degrade(caps) == Comment(caps.whole)

ParseDefine(caps) ==
    LET d == DefineCaptures(caps.arg)
    IN  IF d.matched
        THEN ChordDef(d.at[1], [n \in 1..7 |-> FretOf(d, n - 1)])
        ELSE Degrade(caps)

\* The command names of lines 132-135.
TitleCmds == {Chars("t"), Chars("title")}
SubTitleCmds == {Chars("st"), Chars("subtitle")}
CommentCmds == {Chars("c")}
DefineCmds == {Chars("define")}

\* The expression next() returns for a line nextline() handed it.
Parse(line) ==
    LET caps == DirectiveCaptures(line)
    IN  IF caps.matched
        THEN CASE caps.cmd \in TitleCmds -> Title(caps.arg)
               [] caps.cmd \in SubTitleCmds -> SubTitle(caps.arg)
               [] caps.cmd \in CommentCmds -> Comment(caps.arg)
               [] caps.cmd \in DefineCmds -> ParseDefine(caps)
               [] OTHER -> Degrade(caps)
        ELSE Line(LineSegments(line))

(***************************************************************************)
(* The pdf crate's font metrics (FontRef::get_width_raw, in thousandths of *)
(* the font size), for the characters of the song lines below: the Adobe   *)
(* core-font widths of Times-Roman and Helvetica-Oblique.                  *)
(***************************************************************************)
TimesRomanWidths ==
    (" " :> 250) @@ ("#" :> 500) @@ ("L" :> 611) @@ ("a" :> 444) @@ ("c" :> 444)
    @@ ("l" :> 278) @@ ("x" :> 500)

HelveticaObliqueWidths ==
    ("C" :> 722) @@ ("G" :> 778) @@ ("Z" :> 611) @@ ("z" :> 500) @@ ("%" :> 889)

RECURSIVE get_width_raw(_, _)
get_width_raw(font, text) ==
    IF text = <<>> THEN 0
    ELSE font[Head(text)] + get_width_raw(font, Tail(text))

\* Lines 206, 211, 243, 244 of render_song.
width == 596
height == 842
left == 50
text_size == 14
chord_size == 10

\* FontRef::get_width(size, text) = size * raw / 1000, in thousandths.
get_width_milli(font, size, text) == size * get_width_raw(font, text)

(***************************************************************************)
(* The chord database (mod chords, get_known_chords): a map from chord     *)
(* name to its 7-value encoding.                                           *)
(***************************************************************************)
get_known_chords ==
    (Chars("C") :> <<0, -1, 3, 2, 0, 1, 0>>) @@ (Chars("G") :> <<0, 3, 2, 0, 0, 0, 3>>)

\* Line 301: the encoding drawn for a chord that is in neither table.
UnknownChord == <<0, -2, -2, -2, -2, -2, -2, -2>>

\* A plausible slip: the database consulted before the song's own table.
ResolveKnownFirst(chord, local, known) ==
    IF chord \in DOMAIN known THEN known[chord]
    ELSE IF chord \in DOMAIN local THEN local[chord]
    ELSE UnknownChord

\* Lines 295-302: the encoding handed to chordbox for a used chord.
Resolve(chord, local, known) ==
    IF chord \in DOMAIN local THEN local[chord]
    ELSE IF chord \in DOMAIN known THEN known[chord]
    ELSE UnknownChord

\* chordbox: what is drawn for strings (strings[0] of the source is
\* strings[1] here).  The nut line is drawn when the barre is below 2, else
\* the barre number is printed; each of the six strings gets its mark, a
\* filled dot in the row of its fret.
chordbox(boxleft, top, name, strings) ==
    [name |-> name,
     left |-> boxleft,
     top |-> top,
     nut |-> strings[1] < 2,
     barre |-> IF strings[1] < 2 THEN 0 ELSE strings[1],
     marks |-> [s \in 1..6 |->
                  CASE strings[s + 1] = -2 -> "none"
                    [] strings[s + 1] = -1 -> "muted"
                    [] strings[s + 1] = 0 -> "open"
                    [] OTHER -> "filled"],
     dots |-> [s \in 1..6 |-> IF strings[s + 1] > 0 THEN strings[s + 1] ELSE 0]]

(***************************************************************************)
(* BTreeSet<String>: iteration in ascending byte order.                    *)
(***************************************************************************)
\* The characters in use, in ascending ASCII order.
Ascii ==
    <<"\t">> \o
    Chars(" #%-0123456789:ABCDEFGHIJKLMNOPQRSTUVWXYZ[]_abcdefghijklmnopqrstuvwxyz{}")

Ord(c) == CHOOSE i \in 1..Len(Ascii) : Ascii[i] = c

RECURSIVE StrLess(_, _)
StrLess(a, b) ==
    IF a = <<>> THEN b # <<>>
    ELSE IF b = <<>> THEN FALSE
    ELSE IF Head(a) = Head(b) THEN StrLess(Tail(a), Tail(b))
    ELSE Ord(Head(a)) < Ord(Head(b))

RECURSIVE BTreeSetIter(_)
BTreeSetIter(set) ==
    IF set = {} THEN <<>>
    ELSE LET m == CHOOSE e \in set : \A o \in set \ {e} : StrLess(e, o)
         IN  <<m>> \o BTreeSetIter(set \ {m})

\* The two names of lines 291-292 that are shown like chords but are none.
RepeatMarker == Chars("%")
EmptyName == <<>>

\* A plausible slip: only the repeat marker is removed.
RemoveRepeatOnly(used) == used \ {RepeatMarker}

\* Lines 291-292.
RemoveNonChords(used) == (used \ {RepeatMarker}) \ {EmptyName}

(***************************************************************************)
(* Inputs.                                                                 *)
(***************************************************************************)
\* The k-th path of the command line.
Path(k) == "song" \o ToString(k)

\* The lines a song file is made of.
SongLines ==
    {Chars("{t:T}"),
     Chars("{st:S}"),
     Chars("{define: C base-fret 2 frets 2 2 1 0 0 0}"),
     Chars("{define: C base-fret 0 frets x 3 5 5 5 3}"),
     Chars("{define: C frets 1}"),
     Chars(" # c"),
     Chars(""),
     Chars("La[C]la[G]la"),
     Chars("[Zz]a [%][]")}

\* What next() returns for each of them.
Parsed == [line \in SongLines |-> Parse(line)]

(***************************************************************************)
(* State.                                                                  *)
(***************************************************************************)
VARIABLES
    pc,               \* where control is: main's loop, the token loop, ...
    args,             \* env::args().skip(1)
    argi,             \* how many of args main's loop has taken
    results,          \* what each render_song call returned, in call order
    log,              \* the names main printed "Failed to handle" for
    input,            \* parser specification: the input the line was built from
    lineno,           \* lines read from the current source
    readFailed,       \* the source's Lines iterator returned Some(Err(_))
    curLine,          \* the line nextline last read
    tok,              \* the expression next() returned, until it is consumed
    y,                \* the vertical cursor, in tenths of a unit
    textpos,          \* the last t.pos(left, y), y in tenths
    used_chords,      \* BTreeSet<String>
    local_chords,     \* BTreeMap<String, Vec<i8>>
    defined,          \* history: the ChordDef expressions, in file order
    refs,             \* history: the odd-indexed segments of the Line expressions
    i,                \* the segment loop's index
    last_chord_width, \* in thousandths of a unit
    word_spacing,     \* the text state's Tw, a fraction num/den of thousandths
    char_spacing,     \* the text state's Tc, likewise
    lastShow,         \* the last t.show of a text segment and the spacing it used
    x,                \* left edge of the next chord box
    drawn             \* the chordbox calls of this song, in order

mainVars == <<args, argi, results, log>>
parserVars == <<lineno, readFailed, curLine, tok>>
pageVars == <<y, textpos>>
tableVars == <<used_chords, local_chords, defined, refs>>
lineVars == <<i, last_chord_width, word_spacing, char_spacing, lastShow>>
boxVars == <<x, drawn>>

vars ==
    <<pc, input, mainVars, parserVars, pageVars, tableVars, lineVars, boxVars>>

Zero == [num |-> 0, den |-> 1]
NoInput == [family |-> "none"]
NoShow == [shown |-> FALSE]

\* The state of a song that is not being rendered.
NoSong ==
    /\ lineno = 0 /\ readFailed = FALSE /\ curLine = <<>> /\ tok = NoToken
    /\ y = 0 /\ textpos = <<0, 0>>
    /\ used_chords = {} /\ local_chords = <<>> /\ defined = <<>> /\ refs = {}
    /\ i = 0 /\ last_chord_width = 0
    /\ word_spacing = Zero /\ char_spacing = Zero /\ lastShow = NoShow
    /\ x = 0 /\ drawn = <<>>

DropSong ==
    /\ lineno' = 0 /\ readFailed' = FALSE /\ curLine' = <<>> /\ tok' = NoToken
    /\ y' = 0 /\ textpos' = <<0, 0>>
    /\ used_chords' = {} /\ local_chords' = <<>> /\ defined' = <<>> /\ refs' = {}
    /\ i' = 0 /\ last_chord_width' = 0
    /\ word_spacing' = Zero /\ char_spacing' = Zero /\ lastShow' = NoShow
    /\ x' = 0 /\ drawn' = <<>>

Init ==
    /\ pc = "main"
    /\ args \in {[k \in 1..n |-> Path(k)] : n \in 0..MaxSongs}
    /\ argi = 0
    /\ results = <<>>
    /\ log = <<>>
    /\ input = NoInput
    /\ NoSong

(***************************************************************************)
(* main, lines 189-200.                                                    *)
(***************************************************************************)
\* A plausible slip: the first failing song ends the batch.
StopAtFirstError == "finished"

\* Lines 193-195: an Err is printed and the loop goes on.
AfterSongError == "main"

\* render_song returned Err(e) to main.
ReturnErr ==
    /\ results' = Append(results,
                         [name |-> args[argi], ok |-> FALSE])
    /\ log' = Append(log, args[argi])
    /\ pc' = AfterSongError
    /\ UNCHANGED <<args, argi, input>>
    /\ DropSong

\* Line 205: ChoproParser::open fails and try! returns the error.
OpenFails ==
    /\ pc = "main"
    /\ argi < Len(args)
    /\ argi' = argi + 1
    /\ results' = Append(results,
                         [name |-> args[argi + 1], ok |-> FALSE])
    /\ log' = Append(log, args[argi + 1])
    /\ pc' = AfterSongError
    /\ UNCHANGED <<args, input, parserVars, pageVars, tableVars, lineVars, boxVars>>

\* Lines 205-216: the source opens; the page's closure starts.
OpenSong ==
    /\ pc = "main"
    /\ argi < Len(args)
    /\ argi' = argi + 1
    /\ y' = 10 * (height - 30)
    /\ pc' = "next"
    /\ UNCHANGED <<args, results, log, input, parserVars, textpos, tableVars,
                   lineVars, boxVars>>

\* Line 200: the loop is over (or there were no arguments).
Finish ==
    /\ pc = "main"
    /\ argi = Len(args)
    /\ pc' = "finished"
    /\ UNCHANGED <<input, mainVars, parserVars, pageVars, tableVars, lineVars, boxVars>>

(***************************************************************************)
(* ChoproParser::nextline and ChoproParser::next, driven by line 217.      *)
(***************************************************************************)
\* One turn of nextline's loop on Some(Ok(line)): a comment is passed over,
\* any other line is parsed and returned.
NextLine ==
    /\ pc = "next"
    /\ lineno < MaxLines
    /\ \E line \in SongLines :
        /\ curLine' = line
        /\ lineno' = lineno + 1
        /\ IF IsComment(line)
           THEN tok' = NoToken /\ pc' = "next"
           ELSE tok' = Parsed[line] /\ pc' = "dispatch"
    /\ UNCHANGED <<input, mainVars, readFailed, pageVars, tableVars, lineVars, boxVars>>

\* Lines 291-293, once the token loop is over.
StartDiagrams ==
    /\ used_chords' = RemoveNonChords(used_chords)
    /\ x' = width - Cardinality(used_chords') * 40
    /\ pc' = IF used_chords' = {} THEN "rendered" ELSE "diagrams"
    /\ UNCHANGED <<input, mainVars, lineno, curLine, tok, pageVars, local_chords,
                   defined, refs, lineVars, drawn>>

\* nextline on None: the source is at its end.
EndOfSource ==
    /\ pc = "next"
    /\ UNCHANGED readFailed
    /\ StartDiagrams

\* nextline on Some(Err(e)), lines 111-114: the error is printed and None is
\* returned, which ends the token loop like the end of the source.
ReadFails ==
    /\ pc = "next"
    /\ lineno < MaxLines
    /\ readFailed' = TRUE
    /\ StartDiagrams

(***************************************************************************)
(* render_song, the token loop: lines 217-289.                             *)
(***************************************************************************)
\* The token is moved into the match arm; the arm is done.
Consumed ==
    /\ tok' = NoToken
    /\ curLine' = <<>>
    /\ pc' = "next"

\* A title, subtitle or comment line: the cursor moves down by advance
\* (tenths), then the text is positioned and shown.
TextLine(advance) ==
    /\ y' = y - advance
    /\ textpos' = <<left, y'>>
    /\ Consumed
    /\ UNCHANGED <<input, mainVars, lineno, readFailed, tableVars, lineVars, boxVars>>

\* Lines 220-225.
RenderTitle ==
    /\ pc = "dispatch"
    /\ tok.kind = "Title"
    /\ TextLine(200)

\* Lines 226-231.
RenderSubTitle ==
    /\ pc = "dispatch"
    /\ tok.kind = "SubTitle"
    /\ TextLine(180)

\* Lines 232-237.
RenderComment ==
    /\ pc = "dispatch"
    /\ tok.kind = "Comment"
    /\ TextLine(140)

\* Lines 238-241.
InsertChordDef ==
    /\ pc = "dispatch"
    /\ tok.kind = "ChordDef"
    /\ local_chords' =
         [n \in DOMAIN local_chords \cup {tok.name} |->
            IF n = tok.name THEN tok.def ELSE local_chords[n]]
    /\ defined' = Append(defined, [name |-> tok.name, def |-> tok.def])
    /\ Consumed
    /\ UNCHANGED <<input, mainVars, lineno, readFailed, pageVars, used_chords, refs,
                   lineVars, boxVars>>

\* A plausible slip: the chord row is reserved for every line.
LineAdvanceWithChordRow(s) ==
    IF Len(s) > 0 THEN 12 * (text_size + chord_size) ELSE 12 * text_size

\* Lines 245-246, in tenths: 1.2 * (text_size + chord_size) or 1.2 * text_size.
LineAdvance(s) ==
    IF Len(s) > 1 THEN 12 * (text_size + chord_size) ELSE 12 * text_size

\* Lines 242-249: the head of the Line arm.
RenderLine ==
    /\ pc = "dispatch"
    /\ tok.kind = "Line"
    /\ y' = y - LineAdvance(tok.s)
    /\ textpos' = <<left, y'>>
    /\ i' = 0
    /\ last_chord_width' = 0
    /\ refs' = refs \cup {tok.s[k] : k \in {j \in 1..Len(tok.s) : j % 2 = 0}}
    /\ pc' = "segment"
    /\ UNCHANGED <<input, mainVars, parserVars, used_chords, local_chords, defined,
                   word_spacing, char_spacing, lastShow, boxVars>>

\* Lines 251-261: an odd-indexed segment is shown as a chord.
RenderChordSegment ==
    /\ pc = "segment"
    /\ i < Len(tok.s)
    /\ i % 2 = 1
    /\ LET part == tok.s[i + 1]
           chord_width == get_width_raw(HelveticaObliqueWidths, part)
       IN  /\ used_chords' = used_chords \cup {part}
           /\ last_chord_width' = (chord_width + 400) * chord_size
    /\ i' = i + 1
    /\ UNCHANGED <<pc, input, mainVars, parserVars, pageVars, local_chords, defined,
                   refs, word_spacing, char_spacing, lastShow, boxVars>>

Spaces(part) == Cardinality({k \in 1..Len(part) : part[k] = " "})

\* Lines 266-278: <<word spacing, character spacing>> while the part is shown.
Justify(chordw, textw, part, more, current) ==
    IF chordw > textw /\ more
    THEN IF Spaces(part) > 0
         THEN <<[num |-> chordw - textw, den |-> Spaces(part)], current[2]>>
         ELSE <<current[1], [num |-> chordw - textw, den |-> Len(part)]>>
    ELSE current

\* A plausible slip: only the character spacing is set back.
ResetCharSpacingOnly(chordw, textw, during) ==
    IF chordw > textw THEN <<during[1], Zero>> ELSE during

\* Lines 280-283: <<word spacing, character spacing>> after the part is shown.
ResetSpacing(chordw, textw, during) ==
    IF chordw > textw THEN <<Zero, Zero>> ELSE during

\* Lines 262-284: an even-indexed segment is shown as text.
RenderTextSegment ==
    /\ pc = "segment"
    /\ i < Len(tok.s)
    /\ i % 2 = 0
    /\ LET part == IF Len(tok.s[i + 1]) > 0 THEN tok.s[i + 1] ELSE <<" ">>
           text_width == get_width_milli(TimesRomanWidths, text_size, part)
           during == Justify(last_chord_width, text_width, part, i + 1 < Len(tok.s),
                             <<word_spacing, char_spacing>>)
           after == ResetSpacing(last_chord_width, text_width, during)
       IN  /\ lastShow' = [shown |-> TRUE,
                           part |-> part,
                           chord_width |-> last_chord_width,
                           text_width |-> text_width,
                           final |-> i + 1 = Len(tok.s),
                           word_spacing |-> during[1],
                           char_spacing |-> during[2]]
           /\ word_spacing' = after[1]
           /\ char_spacing' = after[2]
    /\ i' = i + 1
    /\ UNCHANGED <<pc, input, mainVars, parserVars, pageVars, tableVars,
                   last_chord_width, boxVars>>

\* Line 286: the segments are done.
RenderLineEnd ==
    /\ pc = "segment"
    /\ i = Len(tok.s)
    /\ i' = 0
    /\ last_chord_width' = 0
    /\ lastShow' = NoShow
    /\ Consumed
    /\ UNCHANGED <<input, mainVars, lineno, readFailed, pageVars, tableVars,
                   word_spacing, char_spacing, boxVars>>

(***************************************************************************)
(* render_song, the chord boxes: lines 294-305.                            *)
(***************************************************************************)
DrawChordbox ==
    /\ pc = "diagrams"
    /\ LET chord == BTreeSetIter(used_chords)[Len(drawn) + 1]
           chorddef == Resolve(chord, local_chords, get_known_chords)
       IN  drawn' = Append(drawn, chordbox(x, 80, chord, chorddef))
    /\ x' = x + 40
    /\ pc' = IF Len(drawn') = Cardinality(used_chords) THEN "rendered" ELSE "diagrams"
    /\ UNCHANGED <<input, mainVars, parserVars, pageVars, tableVars, lineVars>>

\* Line 305 and line 193: the page is done, render_song returns Ok(()).
ReturnOk ==
    /\ pc = "rendered"
    /\ results' = Append(results,
                         [name |-> args[argi], ok |-> TRUE])
    /\ pc' = "main"
    /\ UNCHANGED <<args, argi, log, input>>
    /\ DropSong

\* A drawing or text primitive returns Err: try! leaves the closure, the song
\* is abandoned and the error goes up to main.
DrawFails ==
    /\ \/ pc = "dispatch" /\ tok.kind # "ChordDef"
       \/ pc = "segment" /\ i < Len(tok.s)
       \/ pc = "diagrams"
    /\ ReturnErr

Next ==
    \/ OpenFails
    \/ OpenSong
    \/ Finish
    \/ NextLine
    \/ EndOfSource
    \/ ReadFails
    \/ RenderTitle
    \/ RenderSubTitle
    \/ RenderComment
    \/ InsertChordDef
    \/ RenderLine
    \/ RenderChordSegment
    \/ RenderTextSegment
    \/ RenderLineEnd
    \/ DrawChordbox
    \/ ReturnOk
    \/ DrawFails

Spec == Init /\ [][Next]_vars

(***************************************************************************)
(* The parser on its own: every input below is handed to nextline and      *)
(* next.  An input is a raw line, or a directive or define line built from *)
(* its parts, so that what the parser returns can be compared with the     *)
(* parts the line was written from.                                        *)
(***************************************************************************)
RawAlphabet == {"a", "[", "]", " ", "#"}

RawInputs ==
    {[family |-> "raw", line |-> l] :
        l \in UNION {[1..n -> RawAlphabet] : n \in 0..MaxLen}}

UnknownCmds == {Chars("T"), Chars("foo"), Chars("chorus")}

DirectiveInputs ==
    {d \in [family : {"directive"},
            before : {<<>>, Chars("x "), Chars("{ ")},
            cmd : TitleCmds \cup SubTitleCmds \cup CommentCmds \cup DefineCmds
                    \cup UnknownCmds,
            sep : {<<>>, Chars(":"), Chars(": "), Chars(" ")},
            arg : {<<>>, Chars("Song"), Chars("a b"), Chars("[C]")},
            after : {<<>>, Chars(" y"), Chars(" }")}] :
        d.sep = <<>> => d.arg = <<>>}

SixOpen == [k \in 1..6 |-> Chars("0")]

FretLists ==
    [1..6 -> {Chars("X"), Chars("5")}]
    \cup {[SixOpen EXCEPT ![p] = w] :
             p \in 1..6,
             w \in {Chars("x"), Chars("1"), Chars("2"), Chars("3"), Chars("4"),
                    Chars("6"), Chars("a"), Chars("10")}}
    \cup {SubSeq(SixOpen, 1, 5),
          SixOpen \o <<Chars("0")>>,
          <<Chars("2"), Chars("2"), Chars("1"), Chars("0"), Chars("0"), Chars("0")>>}

\* Every fret list in the plainest frame, and every frame around a few
\* fret lists.  spaces: one space between words and none at the end, or two
\* and one.
DefineInputs ==
    [family : {"define"},
     sep : {Chars(": ")},
     name : {Chars("X")},
     kw1 : {Chars("base-fret")},
     base : {Chars("x"), Chars("2"), Chars("6")},
     kw2 : {Chars("frets")},
     frets : FretLists,
     spaces : {1}]
    \cup
    [family : {"define"},
     sep : {Chars(": "), Chars(" ")},
     name : {Chars("X"), Chars("C#m7")},
     kw1 : {Chars("base-fret"), Chars("Base-Fret"), Chars("basefret")},
     base : {Chars("x"), Chars("2"), Chars("6")},
     kw2 : {Chars("frets"), Chars("FRETS"), Chars("fret")},
     frets : {SixOpen, [SixOpen EXCEPT ![2] = Chars("X")], SubSeq(SixOpen, 1, 5)},
     spaces : {1, 2}]

ParserInputs == RawInputs \cup DirectiveInputs \cup DefineInputs

RECURSIVE Join(_, _)
Join(words, gap) ==
    IF Len(words) = 0 THEN <<>>
    ELSE IF Len(words) = 1 THEN words[1]
    ELSE words[1] \o gap \o Join(Tail(words), gap)

\* The line an input stands for.
InputLine(inp) ==
    CASE inp.family = "raw" -> inp.line
      [] inp.family = "directive" ->
            inp.before \o <<"{">> \o inp.cmd \o inp.sep \o inp.arg \o <<"}">>
            \o inp.after
      [] inp.family = "define" ->
            <<"{">> \o Chars("define") \o inp.sep
            \o Join(<<inp.name, inp.kw1, inp.base, inp.kw2>> \o inp.frets,
                    [k \in 1..inp.spaces |-> " "])
            \o [k \in 1..(inp.spaces - 1) |-> " "] \o <<"}">>

\* A parser over a source of one line.
InitParser ==
    /\ pc = "parser"
    /\ args = <<>>
    /\ argi = 0
    /\ results = <<>>
    /\ log = <<>>
    /\ input \in ParserInputs
    /\ lineno = 0 /\ readFailed = FALSE /\ curLine = <<>> /\ tok = NoToken
    /\ y = 0 /\ textpos = <<0, 0>>
    /\ used_chords = {} /\ local_chords = <<>> /\ defined = <<>> /\ refs = {}
    /\ i = 0 /\ last_chord_width = 0
    /\ word_spacing = Zero /\ char_spacing = Zero /\ lastShow = NoShow
    /\ x = 0 /\ drawn = <<>>

\* next(): nextline reads the line and passes over it if it is a comment
\* (the source is then at its end and next returns None); any other line is
\* parsed.
ParserNext ==
    /\ pc = "parser"
    /\ lineno = 0
    /\ lineno' = 1
    /\ curLine' = InputLine(input)
    /\ tok' = IF IsComment(curLine') THEN NoToken ELSE Parse(curLine')
    /\ UNCHANGED <<pc, input, mainVars, readFailed, pageVars, tableVars, lineVars,
                   boxVars>>

SpecParser == InitParser /\ [][ParserNext]_vars

(***************************************************************************)
(* Properties of the parser (checked under SpecParser).                    *)
(***************************************************************************)
\* text0 [chord0] text1 ... written back as a line.
RECURSIVE Rebuild(_)
Rebuild(s) ==
    IF Len(s) = 0 THEN <<>>
    ELSE IF Len(s) = 1 THEN s[1]
    ELSE s[1] \o <<"[">> \o s[2] \o <<"]">> \o Rebuild(Tail(Tail(s)))

\* C1: the segments of every lyric line the parser emits are
\* text0, chord0, text1, ..., textN: an odd number of them, beginning and
\* ending with a text segment; the odd-indexed ones (counted from 0) are the
\* interiors of the line's [..] annotations and the even-indexed ones the text
\* outside the brackets, so that writing text0 [chord0] text1 ... gives the
\* line back.
C1_SegmentsAlternate ==
    (pc = "parser" /\ tok.kind = "Line") =>
        /\ Len(tok.s) % 2 = 1
        /\ \A k \in 1..Len(tok.s) :
              IF k % 2 = 1 THEN "[" \notin Range(tok.s[k])
              ELSE "]" \notin Range(tok.s[k])
        /\ Rebuild(tok.s) = curLine

\* The define grammar, on the parts a define line was written from.
MatchesGrammar(inp) ==
    /\ inp.kw1 \in {Chars("base-fret"), Chars("Base-Fret")}
    /\ inp.kw2 \in {Chars("frets"), Chars("FRETS")}
    /\ Len(inp.frets) = 6
    /\ \A w \in {inp.base} \cup Range(inp.frets) :
          w \in {Chars("x"), Chars("X"), Chars("0"), Chars("1"), Chars("2"),
                 Chars("3"), Chars("4"), Chars("5")}

\* x/X is -1, a digit is its own value.
FretValue(w) ==
    CASE w \in {Chars("x"), Chars("X")} -> -1
      [] w = Chars("0") -> 0
      [] w = Chars("1") -> 1
      [] w = Chars("2") -> 2
      [] w = Chars("3") -> 3
      [] w = Chars("4") -> 4
      [] w = Chars("5") -> 5

\* C2: a define directive whose argument matches the grammar yields a
\* ChordDefinition named by the first word, whose encoding is the 7 values
\* base-fret, string 1 .. string 6 in source order, x/X as -1 and a digit
\* as itself, so that every value is -1 or in 0..5.
C2_DefineEncoding ==
    (lineno = 1 /\ input.family = "define" /\ MatchesGrammar(input)) =>
        /\ tok.kind = "ChordDef"
        /\ tok.name = input.name
        /\ Len(tok.def) = 7
        /\ tok.def[1] = FretValue(input.base)
        /\ \A k \in 1..6 : tok.def[k + 1] = FretValue(input.frets[k])
        /\ \A k \in 1..7 : tok.def[k] \in {-1} \cup 0..5

C2_Witness ==
    /\ curLine = Chars("{define: X base-fret 2 frets 2 2 1 0 0 0}")
    /\ tok = ChordDef(Chars("X"), <<2, 2, 2, 1, 0, 0, 0>>)

\* A directive that is no valid command: an unknown command name, or define
\* with an argument outside the grammar.
Malformed(inp) ==
    \/ inp.family = "directive" /\ inp.cmd \in UnknownCmds \cup DefineCmds
    \/ inp.family = "define" /\ ~MatchesGrammar(inp)

\* The text the directive regex matches: from the opening brace to the last
\* closing brace of the line.
MatchedText(inp) ==
    LET line == InputLine(inp)
        first == IF inp.family = "directive" THEN Len(inp.before) + 1 ELSE 1
        last == CHOOSE k \in 1..Len(line) :
                    line[k] = "}" /\ \A j \in (k + 1)..Len(line) : line[j] # "}"
    IN  SubSeq(line, first, last)

\* C8: a malformed directive yields exactly one expression, a Comment whose
\* body is the literal matched directive text, and no ChordDefinition.
C8_MalformedIsComment ==
    (lineno = 1 /\ input.family \in {"directive", "define"} /\ Malformed(input)) =>
        tok = Comment(MatchedText(input))

C8_Witness ==
    /\ lineno = 1
    /\ input.family = "define"
    /\ input.kw1 = Chars("base-fret")
    /\ input.kw2 = Chars("frets")
    /\ input.base = Chars("6")
    /\ input.spaces = 2
    /\ tok.kind = "Comment"
    /\ tok.s = curLine

(***************************************************************************)
(* Properties of main and render_song (checked under Spec).                *)
(***************************************************************************)
\* The song has a define for name; the last of them in file order.
IsDefined(name) == \E k \in 1..Len(defined) : defined[k].name = name

LastDefinition(name) ==
    LET ks == {k \in 1..Len(defined) : defined[k].name = name}
        last == CHOOSE k \in ks : \A j \in ks : j <= k
    IN  defined[last].def

\* C3: every chord box drawn at the end of a song shows the song's last
\* define of that name if there is one, else the database entry if the name
\* is in the database, else an empty grid without any filled, open or muted
\* mark.
C3_ResolutionOrder ==
    \A k \in 1..Len(drawn) :
        LET box == drawn[k]
            name == box.name
        IN  /\ IsDefined(name) =>
                 box = chordbox(box.left, 80, name, LastDefinition(name))
            /\ (~IsDefined(name) /\ name \in DOMAIN get_known_chords) =>
                 box = chordbox(box.left, 80, name, get_known_chords[name])
            /\ (~IsDefined(name) /\ name \notin DOMAIN get_known_chords) =>
                 /\ \A s \in 1..6 : box.marks[s] = "none" /\ box.dots[s] = 0
                 /\ box.nut

\* C, defined by the song, G from the database and Zz, which is in neither.
C3_Witness ==
    /\ pc = "rendered"
    /\ Len(drawn) = 3
    /\ IsDefined(drawn[1].name)
    /\ drawn[1].name \in DOMAIN get_known_chords
    /\ drawn[1].marks # chordbox(0, 80, drawn[1].name,
                                 get_known_chords[drawn[1].name]).marks
    /\ drawn[2].name \in DOMAIN get_known_chords
    /\ ~IsDefined(drawn[2].name)
    /\ drawn[3].name \notin DOMAIN get_known_chords
    /\ ~IsDefined(drawn[3].name)

\* The names the lyric lines referenced, without the two that are no chords.
Wanted == refs \ {Chars("%"), <<>>}

\* C4: once the expressions of a song are exhausted, chord boxes are drawn
\* only for names a lyric line referenced, never for "%" or "", each name
\* once, in ascending order of name, the k-th of n (from 0) at
\* x = 596 - 40 * (n - k); when the page is done every such name has its box.
C4_DiagramsOncePerName ==
    /\ pc \notin {"diagrams", "rendered"} => drawn = <<>>
    /\ pc \in {"diagrams", "rendered"} =>
          LET n == Cardinality(Wanted)
          IN  /\ Len(drawn) <= n
              /\ \A k \in 1..Len(drawn) :
                    /\ drawn[k].name \in Wanted
                    /\ drawn[k].left = 596 - 40 * (n - (k - 1))
                    /\ Cardinality({w \in Wanted : StrLess(w, drawn[k].name)}) = k - 1
              /\ \A j, k \in 1..Len(drawn) :
                    j < k => StrLess(drawn[j].name, drawn[k].name)
              /\ pc = "rendered" => Len(drawn) = n

C4_Witness ==
    /\ pc = "rendered"
    /\ Chars("%") \in refs
    /\ <<>> \in refs
    /\ Len(drawn) = 3
    /\ drawn[1].name = Chars("C") /\ drawn[1].left = 476
    /\ drawn[2].name = Chars("G") /\ drawn[2].left = 516
    /\ drawn[3].name = Chars("Zz") /\ drawn[3].left = 556

\* The spacing law for the text segment last shown; everyText says whether it
\* binds the last segment of a line too.
SpacingLaw(everyText) ==
    (/\ lastShow.shown
     /\ lastShow.chord_width > lastShow.text_width
     /\ (everyText \/ ~lastShow.final)) =>
        LET deficit == lastShow.chord_width - lastShow.text_width
            spaces == Cardinality({k \in 1..Len(lastShow.part) :
                                      lastShow.part[k] = " "})
        IN  /\ deficit > 0
            /\ IF spaces > 0
               THEN /\ lastShow.word_spacing = [num |-> deficit, den |-> spaces]
                    /\ lastShow.char_spacing = [num |-> 0, den |-> 1]
               ELSE /\ Len(lastShow.part) > 0
                    /\ lastShow.char_spacing =
                         [num |-> deficit, den |-> Len(lastShow.part)]
                    /\ lastShow.word_spacing = [num |-> 0, den |-> 1]

\* Both spacings are zero between segments and between lines.
SpacingIsReset ==
    /\ word_spacing = [num |-> 0, den |-> 1]
    /\ char_spacing = [num |-> 0, den |-> 1]

RECURSIVE FailedNames(_)
FailedNames(rs) ==
    IF rs = <<>> THEN <<>>
    ELSE (IF rs[1].ok THEN <<>> ELSE <<rs[1].name>>) \o FailedNames(Tail(rs))

\* C6: the songs are attempted once each in argument order; a song that
\* fails is logged by name and not retried, and the songs after it are still
\* attempted: when main is done every argument has its result.
C6_EverySongAttempted ==
    /\ Len(results) <= Len(args)
    /\ \A k \in 1..Len(results) : results[k].name = args[k]
    /\ argi \in {Len(results), Len(results) + 1}
    /\ argi = Len(results) + 1 <=> pc \notin {"main", "finished"}
    /\ log = FailedNames(results)
    /\ pc = "finished" => Len(results) = Len(args)

C6_Witness ==
    /\ pc = "finished"
    /\ Len(args) = 2
    /\ Len(results) = 2
    /\ ~results[1].ok
    /\ results[2].ok
    /\ log = <<args[1]>>

\* C7: a song whose source failed while a line was being read does not get
\* as far as render_song returning Ok.
C7_ReadFailureIsFatal == readFailed => pc # "rendered"

\* A line whose first character that is no white space is '#'; a line of
\* white space only.
CommentLine(line) ==
    \E k \in 1..Len(line) :
        /\ line[k] = "#"
        /\ \A j \in 1..(k - 1) : line[j] \in {" ", "\t"}

BlankLine(line) == \A k \in 1..Len(line) : line[k] \in {" ", "\t"}

\* What reading a skipped line leaves alone.
NothingDrawn ==
    UNCHANGED <<y, textpos, used_chords, local_chords, defined, refs, drawn,
                lastShow>>

\* C9 as stated: a blank line or comment line read from the source yields no
\* expression: the parser goes on to the next line and the cursor, the page,
\* the referenced chords and the local chord table stay as they were.
C9_AsStated ==
    [][(/\ pc = "next"
        /\ lineno' = lineno + 1
        /\ (CommentLine(curLine') \/ BlankLine(curLine'))) =>
           (tok' = [kind |-> "None"] /\ pc' = "next" /\ NothingDrawn)]_vars

\* C9: a comment line read from the source yields no expression: the parser
\* goes on to the next line and the cursor, the page, the referenced chords
\* and the local chord table stay as they were.  A blank line is not
\* skipped: it is emitted as a lyric line of one text segment, the line
\* itself.
C9_CommentsSkipped ==
    [][(pc = "next" /\ lineno' = lineno + 1) =>
        /\ CommentLine(curLine') =>
              (tok' = [kind |-> "None"] /\ pc' = "next" /\ NothingDrawn)
        /\ BlankLine(curLine') =>
              (tok' = [kind |-> "Line", s |-> <<curLine'>>] /\ pc' = "dispatch")]_vars

\* A comment line was passed over after a title.
C9_Witness ==
    /\ pc = "next"
    /\ curLine = Chars(" # c")
    /\ tok = [kind |-> "None"]
    /\ y = 8120 - 200

\* The advance of the cursor for an expression, in tenths.
Advance(e) ==
    CASE e.kind = "Title" -> 200
      [] e.kind = "SubTitle" -> 180
      [] e.kind = "Comment" -> 140
      [] e.kind = "ChordDef" -> 0
      [] e.kind = "Line" -> IF Len(e.s) >= 2 THEN 288 ELSE 168

\* C10: the cursor of a song starts at 842 - 30; every expression moves it
\* down, before the line is positioned, by 20 for a Title, 18 for a SubTitle,
\* 14 for a Comment, 16.8 for a lyric line without a chord segment, 28.8 for
\* one with a chord segment and 0 for a ChordDefinition, which positions no
\* text and only sets its entry of the local chord table; nothing else moves
\* the cursor.
C10_CursorLaw ==
    [][/\ (pc = "main" /\ pc' = "next") => y' = 10 * (842 - 30)
       /\ (pc = "dispatch" /\ pc' # "main") =>
             /\ y' = y - Advance(tok)
             /\ y' <= y
             /\ IF tok.kind = "ChordDef"
                THEN /\ UNCHANGED <<textpos, drawn, lastShow, used_chords>>
                     /\ DOMAIN local_chords' = DOMAIN local_chords \cup {tok.name}
                     /\ local_chords'[tok.name] = tok.def
                     /\ \A n \in DOMAIN local_chords \ {tok.name} :
                           local_chords'[n] = local_chords[n]
                ELSE /\ textpos' = <<50, y'>>
                     /\ local_chords' = local_chords
       /\ (pc \in {"next", "segment", "diagrams"} /\ pc' # "main") => y' = y]_vars

\* A title, then a lyric line with chords.
C10_Witness ==
    /\ pc = "segment"
    /\ Len(tok.s) >= 2
    /\ y = 8120 - 200 - 288
    /\ textpos = <<50, y>>

====
